---- MODULE Spec2Model ----
\* Model of the Alpaca trading plugin (src/index.ts): the AlpacaClient
\* transport (trade / data), credential and mode resolution from the host
\* settings (getClient / modeLabel), and the tool and route handlers.
\*
\* One handler invocation is in flight at a time.  A handler runs
\* synchronously up to its single `await fetch(...)`, is suspended while the
\* request is in flight, and resumes when the response (or a network failure)
\* arrives.  The host settings may be changed at any moment, in particular
\* while a request is in flight.
\*
\* An optional JavaScript value is a sequence: << >> is undefined, <<v>> is v.
EXTENDS Integers, Sequences, FiniteSets, TLC

\* ---------------------------------------------------------------- bounds
\* largest number an argument takes (0 is always included: it is falsy)
MaxNum == 1
\* largest number of elements in a list returned by the upstream
MaxItems == 1

\* ------------------------------------------------------------ Alpaca URLs
PAPER_TRADE_URL == "https://paper-api.alpaca.markets"
LIVE_TRADE_URL == "https://api.alpaca.markets"
DATA_URL == "https://data.alpaca.markets"

\* ---------------------------------------------------------- JS semantics
None == << >>
Some(v) == <<v>>

\* truthiness of an optional string: undefined and "" are falsy
TruthyStr(s) == s # None /\ s[1] # ""
\* truthiness of an optional number: undefined and 0 are falsy
TruthyNum(n) == n # None /\ n[1] # 0
\* String(n) of a number
String(n) == ToString(n)
\* String(x) of an optional number (String(undefined) is "undefined")
StringOpt(n) == IF n = None THEN "undefined" ELSE String(n[1])
\* s.toUpperCase() on the symbols of the model
toUpperCase(s) ==
    CASE s = "aapl" -> "AAPL"
      [] s = "msft" -> "MSFT"
      [] s = "btc/usd" -> "BTC/USD"
      [] OTHER -> s
\* encodeURIComponent(s) on the symbols of the model
encodeURIComponent(s) ==
    CASE s = "BTC/USD" -> "BTC%2FUSD"
      [] s = "btc/usd" -> "btc%2Fusd"
      [] OTHER -> s

\* ---------------------------------------------------------------- state
VARIABLES
    settings,   \* host settings read through ctx.getSetting
    pc,         \* "idle" | "awaiting" | "returned"
    call,       \* the invocation being served: [tool, args]
    client,     \* None, or the AlpacaClient built by getClient for this call
    atCall,     \* the settings as they were when the handler was entered
    outbox,     \* the HTTP requests this invocation has issued, in order
    response,   \* None, or the upstream response the handler resumed with
    result      \* None, or the value the handler returned

vars == <<settings, pc, call, client, atCall, outbox, response, result>>

\* -------------------------------------------------------------- helpers
\* ok(text) / err(text); a text is a sequence of string fragments
ok(text) == [isError |-> FALSE, text |-> text]
err(text) == [isError |-> TRUE, text |-> text]

\* the value a route returns from its catch clause: { error: message }
routeError(text) == [isError |-> TRUE, text |-> text]
\* the value a route returns on success: the upstream JSON itself
routeValue(json) == [isError |-> FALSE, text |-> <<"json">>]

\* Error messages
CredentialsMessage == <<"Alpaca API credentials not configured. Set them in plugin settings.">>
QtyOrNotionalMessage == <<"Either qty or notional is required.">>
NameRequiredMessage == <<"Name is required to create a watchlist.">>
TypeErrorMessage == <<"TypeError">>
FetchFailedMessage == <<"fetch failed">>

\* --------------------------------------------------------- AlpacaClient
\* AlpacaClient with the two trading URLs of the constructor exchanged
AlpacaClient_swapped(apiKey, secretKey, paper) ==
    [apiKey |-> apiKey,
     secretKey |-> secretKey,
     tradeUrl |-> IF paper THEN LIVE_TRADE_URL ELSE PAPER_TRADE_URL,
     dataUrl |-> DATA_URL]

\* new AlpacaClient(apiKey, secretKey, paper)
AlpacaClient(apiKey, secretKey, paper) ==
    [apiKey |-> apiKey,
     secretKey |-> secretKey,
     tradeUrl |-> IF paper THEN PAPER_TRADE_URL ELSE LIVE_TRADE_URL,
     dataUrl |-> DATA_URL]

\* AlpacaClient.headers()
headers(c) ==
    [keyId |-> c.apiKey, secret |-> c.secretKey, contentType |-> "application/json"]

\* the request AlpacaClient.trade(method, path, body) hands to fetch
trade(c, method, path, body) ==
    [transport |-> "trade",
     method |-> method,
     base |-> c.tradeUrl,
     path |-> path,
     url |-> c.tradeUrl \o path,
     headers |-> headers(c),
     body |-> body]

\* the query string url.searchParams builds from the truthy params, in order
RECURSIVE searchParams(_, _)
searchParams(params, first) ==
    IF params = << >> THEN ""
    ELSE LET kv == Head(params) IN
         IF kv[2] = "" THEN searchParams(Tail(params), first)
         ELSE (IF first THEN "?" ELSE "&") \o kv[1] \o "=" \o kv[2]
              \o searchParams(Tail(params), FALSE)

\* a data transport that prefixes the mode's trading URL
data_viatrade(c, path, params) ==
    [transport |-> "data",
     method |-> "GET",
     base |-> c.tradeUrl,
     path |-> path,
     url |-> c.tradeUrl \o path \o searchParams(params, TRUE),
     headers |-> headers(c),
     body |-> None]

\* the request AlpacaClient.data(path, params) hands to fetch
data(c, path, params) ==
    [transport |-> "data",
     method |-> "GET",
     base |-> c.dataUrl,
     path |-> path,
     url |-> c.dataUrl \o path \o searchParams(params, TRUE),
     headers |-> headers(c),
     body |-> None]

\* res.ok
ResOk(status) == status >= 200 /\ status <= 299

\* outcomes of an awaited client call: a thrown Error or a value
\* (a value is {} after a 204, else the parsed document: the number of items
\* of a list, and for a portfolio history the length of each of its arrays,
\* items being the length of timestamp)
Threw(message) ==
    [threw |-> TRUE, message |-> message, empty |-> FALSE, items |-> 0,
     equity |-> 0, profit_loss |-> 0, profit_loss_pct |-> 0]
Value(empty, res) ==
    [threw |-> FALSE, message |-> << >>, empty |-> empty,
     items |-> IF empty THEN 0 ELSE res.items,
     equity |-> IF empty THEN 0 ELSE res.equity,
     profit_loss |-> IF empty THEN 0 ELSE res.profit_loss,
     profit_loss_pct |-> IF empty THEN 0 ELSE res.profit_loss_pct]

\* trade() whose Error message leaves the response text out
tradeOutcome_nobody(res) ==
    IF ~ResOk(res.status)
    THEN Threw(<<"Alpaca ", String(res.status)>>)
    ELSE IF res.status = 204 THEN Value(TRUE, res)
    ELSE Value(FALSE, res)

\* what AlpacaClient.trade resolves to once fetch has answered with res:
\* a non-2xx throws `Alpaca ${res.status}: ${text}`, a 204 yields {}, anything
\* else the parsed JSON
tradeOutcome(res) ==
    IF ~ResOk(res.status)
    THEN Threw(<<"Alpaca ", String(res.status), ": ", res.text>>)
    ELSE IF res.status = 204 THEN Value(TRUE, res)
    ELSE Value(FALSE, res)

\* what AlpacaClient.data resolves to once fetch has answered with res:
\* there is no 204 case, res.json() of an empty body throws
dataOutcome(res) ==
    IF ~ResOk(res.status)
    THEN Threw(<<"Alpaca Data ", String(res.status), ": ", res.text>>)
    ELSE IF res.status = 204 THEN Threw(<<"SyntaxError">>)
    ELSE Value(FALSE, res)

\* ---- client methods: the request each one issues
getAccount(c) == trade(c, "GET", "/v2/account", None)
getPositions(c) == trade(c, "GET", "/v2/positions", None)
closePosition(c, symbol, qty, percentage) ==
    LET q == IF TruthyStr(qty) THEN <<<<"qty", qty[1]>>>> ELSE << >>
        p == IF TruthyStr(percentage) THEN <<<<"percentage", percentage[1]>>>> ELSE << >>
    IN trade(c, "DELETE",
             "/v2/positions/" \o encodeURIComponent(symbol) \o searchParams(q \o p, TRUE),
             None)
closeAllPositions(c, cancelOrders) ==
    trade(c, "DELETE",
          "/v2/positions?cancel_orders=" \o (IF cancelOrders THEN "true" ELSE "false"),
          None)
getOrders(c, status, limit) ==
    trade(c, "GET", "/v2/orders?status=" \o status \o "&limit=" \o String(limit), None)
placeOrder(c, order) == trade(c, "POST", "/v2/orders", Some(order))
cancelOrder(c, orderId) == trade(c, "DELETE", "/v2/orders/" \o orderId, None)
cancelAllOrders(c) == trade(c, "DELETE", "/v2/orders", None)
getClock(c) == trade(c, "GET", "/v2/clock", None)
getPortfolioHistory(c, period, timeframe) ==
    trade(c, "GET",
          "/v2/account/portfolio/history?period=" \o period \o "&timeframe=" \o timeframe,
          None)
getSnapshot(c, symbol) ==
    data(c, "/v2/stocks/" \o encodeURIComponent(symbol) \o "/snapshot",
         <<<<"feed", "iex">>>>)
getSnapshots(c, symbols) ==
    data(c, "/v2/stocks/snapshots", <<<<"symbols", symbols>>, <<"feed", "iex">>>>)
getBars(c, symbol, timeframe, start, limit) ==
    data(c, "/v2/stocks/" \o encodeURIComponent(symbol) \o "/bars",
         <<<<"timeframe", timeframe>>, <<"start", start>>, <<"limit", limit>>,
           <<"feed", "iex">>, <<"sort", "desc">>>>)
getCryptoSnapshot(c, symbol) ==
    data(c, "/v1beta3/crypto/us/snapshots/" \o encodeURIComponent(symbol), << >>)
getWatchlists(c) == trade(c, "GET", "/v2/watchlists", None)
createWatchlist(c, name, symbols) ==
    trade(c, "POST", "/v2/watchlists", Some([name |-> name, symbols |-> symbols]))
getWatchlist(c, id) == trade(c, "GET", "/v2/watchlists/" \o id, None)

\* ------------------------------------------------- getClient / modeLabel
\* ctx.getSetting("tradingMode") || "paper"
ModeOf(s) == IF TruthyStr(s.tradingMode) THEN s.tradingMode[1] ELSE "paper"

\* getClient() that tests the API key only
getClient_keyonly(s) ==
    IF ~TruthyStr(s.alpacaApiKey)
    THEN [threw |-> TRUE, client |-> None]
    ELSE [threw |-> FALSE,
          client |-> Some(AlpacaClient(s.alpacaApiKey[1],
                                       IF s.alpacaSecretKey = None THEN ""
                                       ELSE s.alpacaSecretKey[1],
                                       ModeOf(s) = "paper"))]

\* getClient(): throws when a credential is missing, else builds the client
getClient(s) ==
    IF ~TruthyStr(s.alpacaApiKey) \/ ~TruthyStr(s.alpacaSecretKey)
    THEN [threw |-> TRUE, client |-> None]
    ELSE [threw |-> FALSE,
          client |-> Some(AlpacaClient(s.alpacaApiKey[1], s.alpacaSecretKey[1],
                                       ModeOf(s) = "paper"))]

\* modeLabel()
modeLabel(s) == IF ModeOf(s) = "paper" THEN "PAPER" ELSE "LIVE"

\* the `[${modeLabel()}]` fragment of a result text
Tag(label) == "[" \o label \o "]"

\* ------------------------------------------------------ handler plumbing
\* `x || d` on an optional string
OrStr(x, d) == IF TruthyStr(x) THEN x[1] ELSE d
\* `x || d` on an optional number
OrNum(x, d) == IF TruthyNum(x) THEN x[1] ELSE d
\* Math.min(a, b)
Min(a, b) == IF a <= b THEN a ELSE b

\* How the synchronous part of a handler ends: it returned a value (ret), or
\* it is suspended on a request (req).  client is the AlpacaClient it built.
Returned(c, r) == [ret |-> Some(r), req |-> None, client |-> c]
Awaiting(c, rq) == [ret |-> None, req |-> Some(rq), client |-> Some(c)]

\* try { ... } catch (e) { return err(e.message) } around a getClient() that
\* threw: the tool returns the credential error
CredentialsErr == Returned(None, err(CredentialsMessage))
\* the same in a route, whose catch clause returns { error: message }
RouteCredentialsErr == Returned(None, routeError(CredentialsMessage))

\* ------------------------------------------------------------- routes
route_account_begin(args, s) ==
    LET c == getClient(s).client[1]
    IN IF getClient(s).threw THEN RouteCredentialsErr
       ELSE Awaiting(c, getAccount(c))
route_positions_begin(args, s) ==
    LET c == getClient(s).client[1]
    IN IF getClient(s).threw THEN RouteCredentialsErr
       ELSE Awaiting(c, getPositions(c))
route_orders_begin(args, s) ==
    LET c == getClient(s).client[1]
    IN IF getClient(s).threw THEN RouteCredentialsErr
       ELSE Awaiting(c, getOrders(c, "open", 50))
route_clock_begin(args, s) ==
    LET c == getClient(s).client[1]
    IN IF getClient(s).threw THEN RouteCredentialsErr
       ELSE Awaiting(c, getClock(c))
\* a route whose catch answers with a value that carries no error
route_resume_swallow(args, r, s) ==
    IF r.threw THEN routeValue(r) ELSE routeValue(r)

\* every route: the awaited value is returned as is, an Error becomes { error }
route_resume(args, r, s) ==
    IF r.threw THEN routeError(r.message) ELSE routeValue(r)

\* ------------------------------------------------- account and portfolio
alpaca_account_begin(args, s) ==
    LET c == getClient(s).client[1]
    IN IF getClient(s).threw THEN CredentialsErr
       ELSE Awaiting(c, getAccount(c))
alpaca_account_resume(args, r, s) ==
    IF r.threw THEN err(r.message)
    ELSE IF r.empty THEN err(TypeErrorMessage)
    ELSE ok(<<"Alpaca Account ", Tag(modeLabel(s)), "Status", "Equity", "Cash">>)

alpaca_positions_begin(args, s) ==
    LET c == getClient(s).client[1]
    IN IF getClient(s).threw THEN CredentialsErr
       ELSE Awaiting(c, getPositions(c))
alpaca_positions_resume(args, r, s) ==
    IF r.threw THEN err(r.message)
    ELSE IF r.empty THEN err(TypeErrorMessage)
    ELSE IF r.items = 0 THEN ok(<<"No open positions ", Tag(modeLabel(s))>>)
    ELSE ok(<<"Open Positions ", Tag(modeLabel(s)), " (", String(r.items), ")">>)

alpaca_portfolio_history_begin(args, s) ==
    LET period == OrStr(args.period, "1M")
        timeframe == OrStr(args.timeframe, "1D")
        c == getClient(s).client[1]
    IN IF getClient(s).threw THEN CredentialsErr
       ELSE Awaiting(c, getPortfolioHistory(c, period, timeframe))
\* count is timestamp.length; equity[count - 1] and profit_loss[i] of the last
\* points are read without a length check: a shorter array yields undefined,
\* on which formatMoney throws; a longer one, and profit_loss_pct, go unnoticed
alpaca_portfolio_history_resume(args, r, s) ==
    IF r.threw THEN err(r.message)
    ELSE IF r.empty \/ r.items = 0 THEN ok(<<"No portfolio history available.">>)
    ELSE IF r.equity < r.items THEN err(TypeErrorMessage)
    ELSE IF r.profit_loss < r.items THEN err(TypeErrorMessage)
    ELSE ok(<<"Portfolio History ", Tag(modeLabel(s)), " - ",
              OrStr(args.period, "1M"), " @ ", OrStr(args.timeframe, "1D")>>)

\* ---------------------------------------------------------- market data
alpaca_quote_begin(args, s) ==
    LET symbol == toUpperCase(args.symbol[1])
        c == getClient(s).client[1]
    IN IF getClient(s).threw THEN CredentialsErr
       ELSE Awaiting(c, getSnapshot(c, symbol))
alpaca_quote_resume(args, r, s) ==
    IF r.threw THEN err(r.message)
    ELSE ok(<<toUpperCase(args.symbol[1]), ": $", "Change", "Bid", "Today", "Prev Close">>)

\* symbols.join(",") as url.searchParams encodes it ("," becomes "%2C")
RECURSIVE join(_)
join(symbols) ==
    IF symbols = << >> THEN ""
    ELSE IF Len(symbols) = 1 THEN symbols[1]
    ELSE symbols[1] \o "%2C" \o join(Tail(symbols))
\* symbols.map(s => s.toUpperCase())
upperAll(symbols) == [i \in DOMAIN symbols |-> toUpperCase(symbols[i])]

alpaca_quotes_begin(args, s) ==
    LET symbols == upperAll(args.symbols[1])
        c == getClient(s).client[1]
    IN IF getClient(s).threw THEN CredentialsErr
       ELSE Awaiting(c, getSnapshots(c, join(symbols)))
\* one line per requested symbol: the upstream map has r.items of them
alpaca_quotes_resume(args, r, s) ==
    IF r.threw THEN err(r.message)
    ELSE ok([i \in DOMAIN args.symbols[1] |->
                toUpperCase(args.symbols[1][i])
                \o (IF i <= r.items THEN ": $" ELSE ": No data")])

alpaca_bars_begin(args, s) ==
    LET symbol == toUpperCase(args.symbol[1])
        timeframe == OrStr(args.timeframe, "1Day")
        limit == String(Min(OrNum(args.limit, 50), 200))
        c == getClient(s).client[1]
    IN IF getClient(s).threw THEN CredentialsErr
       ELSE Awaiting(c, getBars(c, symbol, timeframe, "start", limit))
alpaca_bars_resume(args, r, s) ==
    IF r.threw THEN err(r.message)
    ELSE IF r.items = 0 THEN err(<<"No bar data for ", toUpperCase(args.symbol[1])>>)
    ELSE ok(<<toUpperCase(args.symbol[1]), " - ", String(r.items), " bars">>)

alpaca_crypto_quote_begin(args, s) ==
    LET symbol == toUpperCase(args.symbol[1])
        c == getClient(s).client[1]
    IN IF getClient(s).threw THEN CredentialsErr
       ELSE Awaiting(c, getCryptoSnapshot(c, symbol))
alpaca_crypto_quote_resume(args, r, s) ==
    IF r.threw THEN err(r.message)
    ELSE ok(<<toUpperCase(args.symbol[1]), ": $", "Bid", "Daily">>)

\* ------------------------------------------------------- order execution
\* String(x) of an optional number when x is truthy, else the field is absent
StrIfTruthy(x) == IF TruthyNum(x) THEN Some(String(x[1])) ELSE None

\* a string value of a JSON request body
JsonString(str) == [typeof |-> "string", value |-> str]

\* an order field that is put into the payload as the number itself
StringField_number(x) ==
    IF TruthyNum(x) THEN Some([typeof |-> "number", value |-> String(x[1])]) ELSE None

\* if (args.f) order.f = String(args.f)
StringField(x) == IF TruthyNum(x) THEN Some(JsonString(String(x[1]))) ELSE None

\* the order object alpaca_place_order builds from its arguments
place_order_payload(args) ==
    [symbol |-> toUpperCase(args.symbol[1]),
     side |-> Some(OrStr(args.side, "buy")),
     qty |-> Some(JsonString(StringOpt(args.qty))),
     notional |-> None,
     type |-> OrStr(args.order_type, "market"),
     time_in_force |-> OrStr(args.time_in_force, "day"),
     limit_price |-> StringField(args.limit_price),
     stop_price |-> StringField(args.stop_price),
     trail_percent |-> StringField(args.trail_percent),
     trail_price |-> StringField(args.trail_price),
     extended_hours |-> IF args.extended_hours = Some(TRUE) THEN Some(TRUE) ELSE None]

alpaca_place_order_begin(args, s) ==
    LET order == place_order_payload(args)
        c == getClient(s).client[1]
    IN IF getClient(s).threw THEN CredentialsErr
       ELSE Awaiting(c, placeOrder(c, order))
alpaca_place_order_resume(args, r, s) ==
    IF r.threw THEN err(r.message)
    ELSE IF r.empty THEN err(TypeErrorMessage)
    ELSE ok(<<"Order Placed ", Tag(modeLabel(s)), "Type", "Status", "Order ID">>)

\* an order object that takes notional whether or not qty was taken
place_crypto_order_payload_both(args) ==
    [symbol |-> toUpperCase(args.symbol[1]),
     side |-> args.side,
     qty |-> StringField(args.qty),
     notional |-> StringField(args.notional),
     type |-> OrStr(args.order_type, "market"),
     time_in_force |-> OrStr(args.time_in_force, "gtc"),
     limit_price |-> StringField(args.limit_price),
     stop_price |-> None,
     trail_percent |-> None,
     trail_price |-> None,
     extended_hours |-> None]

\* the order object alpaca_place_crypto_order builds; qty wins over notional
place_crypto_order_payload(args) ==
    [symbol |-> toUpperCase(args.symbol[1]),
     side |-> args.side,
     qty |-> StringField(args.qty),
     notional |-> IF TruthyNum(args.qty) THEN None ELSE StringField(args.notional),
     type |-> OrStr(args.order_type, "market"),
     time_in_force |-> OrStr(args.time_in_force, "gtc"),
     limit_price |-> StringField(args.limit_price),
     stop_price |-> None,
     trail_percent |-> None,
     trail_price |-> None,
     extended_hours |-> None]

\* alpaca_place_crypto_order that resolves the client before checking qty / notional
alpaca_place_crypto_order_begin_clientfirst(args, s) ==
    LET order == place_crypto_order_payload(args)
        c == getClient(s).client[1]
    IN IF getClient(s).threw THEN CredentialsErr
       ELSE IF ~TruthyNum(args.qty) /\ ~TruthyNum(args.notional)
       THEN Returned(Some(c), err(QtyOrNotionalMessage))
       ELSE Awaiting(c, placeOrder(c, order))

\* the qty / notional check returns before getClient() is reached
alpaca_place_crypto_order_begin(args, s) ==
    LET order == place_crypto_order_payload(args)
        c == getClient(s).client[1]
    IN IF ~TruthyNum(args.qty) /\ ~TruthyNum(args.notional)
       THEN Returned(None, err(QtyOrNotionalMessage))
       ELSE IF getClient(s).threw THEN CredentialsErr
       ELSE Awaiting(c, placeOrder(c, order))
alpaca_place_crypto_order_resume(args, r, s) ==
    IF r.threw THEN err(r.message)
    ELSE IF r.empty THEN err(TypeErrorMessage)
    ELSE ok(<<"Crypto Order Placed ", Tag(modeLabel(s)), "Type", "Status", "Order ID">>)

alpaca_orders_begin(args, s) ==
    LET status == OrStr(args.status, "open")
        limit == Min(OrNum(args.limit, 20), 100)
        c == getClient(s).client[1]
    IN IF getClient(s).threw THEN CredentialsErr
       ELSE Awaiting(c, getOrders(c, status, limit))
alpaca_orders_resume(args, r, s) ==
    LET status == OrStr(args.status, "open") IN
    IF r.threw THEN err(r.message)
    ELSE IF r.empty THEN err(TypeErrorMessage)
    ELSE IF r.items = 0 THEN ok(<<"No ", status, " orders ", Tag(modeLabel(s))>>)
    ELSE ok(<<status, " Orders ", Tag(modeLabel(s)), " (", String(r.items), ")">>)

alpaca_cancel_order_begin(args, s) ==
    LET c == getClient(s).client[1]
    IN IF getClient(s).threw THEN CredentialsErr
       ELSE IF TruthyStr(args.order_id)
       THEN Awaiting(c, cancelOrder(c, args.order_id[1]))
       ELSE Awaiting(c, cancelAllOrders(c))
\* a cancel handler that treats the empty object of a 204 as a failure
alpaca_cancel_order_resume_needsbody(args, r, s) ==
    IF r.threw THEN err(r.message)
    ELSE IF r.empty THEN err(TypeErrorMessage)
    ELSE IF TruthyStr(args.order_id)
    THEN ok(<<"Order ", args.order_id[1], " cancelled ", Tag(modeLabel(s))>>)
    ELSE ok(<<"All open orders cancelled ", Tag(modeLabel(s))>>)

alpaca_cancel_order_resume(args, r, s) ==
    IF r.threw THEN err(r.message)
    ELSE IF TruthyStr(args.order_id)
    THEN ok(<<"Order ", args.order_id[1], " cancelled ", Tag(modeLabel(s))>>)
    ELSE ok(<<"All open orders cancelled ", Tag(modeLabel(s))>>)

\* --------------------------------------------------- position management
alpaca_close_position_begin(args, s) ==
    LET symbol == toUpperCase(args.symbol[1])
        qty == StrIfTruthy(args.qty)
        pct == StrIfTruthy(args.percentage)
        c == getClient(s).client[1]
    IN IF getClient(s).threw THEN CredentialsErr
       ELSE Awaiting(c, closePosition(c, symbol, qty, pct))
alpaca_close_position_resume(args, r, s) ==
    IF r.threw THEN err(r.message)
    ELSE ok(<<"Position close order placed for ", toUpperCase(args.symbol[1]), " ",
              Tag(modeLabel(s)), "Status", "Order ID">>)

alpaca_close_all_positions_begin(args, s) ==
    LET cancel == args.cancel_orders # Some(FALSE)
        c == getClient(s).client[1]
    IN IF getClient(s).threw THEN CredentialsErr
       ELSE Awaiting(c, closeAllPositions(c, cancel))
alpaca_close_all_positions_resume(args, r, s) ==
    LET cancel == args.cancel_orders # Some(FALSE) IN
    IF r.threw THEN err(r.message)
    ELSE ok(<<"All positions closed", IF cancel THEN " and orders cancelled" ELSE "", " ",
              Tag(modeLabel(s))>>)

\* --------------------------------------------------------- market status
alpaca_market_clock_begin(args, s) ==
    LET c == getClient(s).client[1]
    IN IF getClient(s).threw THEN CredentialsErr
       ELSE Awaiting(c, getClock(c))
alpaca_market_clock_resume(args, r, s) ==
    IF r.threw THEN err(r.message)
    ELSE ok(<<"Market is ", "Next Open", "Next Close">>)

\* ------------------------------------------------------------ watchlists
alpaca_watchlists_begin(args, s) ==
    LET g == getClient(s)
        action == OrStr(args.action, "list")
    IN IF g.threw THEN CredentialsErr
       ELSE LET c == g.client[1] IN
            IF action = "create"
            THEN IF ~TruthyStr(args.name)
                 THEN Returned(Some(c), err(NameRequiredMessage))
                 ELSE Awaiting(c, createWatchlist(c, args.name[1],
                                    upperAll(IF args.symbols = None THEN << >>
                                             ELSE args.symbols[1])))
            ELSE IF action = "view" /\ TruthyStr(args.watchlist_id)
            THEN Awaiting(c, getWatchlist(c, args.watchlist_id[1]))
            ELSE Awaiting(c, getWatchlists(c))
alpaca_watchlists_resume(args, r, s) ==
    LET action == OrStr(args.action, "list") IN
    IF r.threw THEN err(r.message)
    ELSE IF action = "create"
    THEN ok(<<"Watchlist ", args.name[1], " created">>)
    ELSE IF action = "view" /\ TruthyStr(args.watchlist_id)
    THEN IF r.empty THEN err(TypeErrorMessage) ELSE ok(<<"name", ": ", "symbols">>)
    ELSE IF r.empty THEN err(TypeErrorMessage)
    ELSE IF r.items = 0 THEN ok(<<"No watchlists.">>)
    ELSE ok(<<"Watchlists:", String(r.items)>>)

\* --------------------------------------------------------------- inputs
\* Arguments carry the properties their inputSchema lists as required
\* (symbol, symbols, side); every other property may be absent.
\* values a setting can hold
ApiKeyValues == {None, Some(""), Some("PK")}
SecretKeyValues == {None, Some(""), Some("SK")}
TradingModeValues == {None, Some("paper"), Some("live"), Some("sandbox")}
Settings ==
    [alpacaApiKey : ApiKeyValues, alpacaSecretKey : SecretKeyValues,
     tradingMode : TradingModeValues]

\* an optional numeric argument
OptNum == {None} \cup {Some(n) : n \in 0..MaxNum}

\* the argument object with every property absent
NoArgs ==
    [symbol |-> None, symbols |-> None, side |-> None, qty |-> None,
     notional |-> None, order_type |-> None, limit_price |-> None,
     stop_price |-> None, trail_percent |-> None, trail_price |-> None,
     time_in_force |-> None, extended_hours |-> None, status |-> None,
     limit |-> None, order_id |-> None, percentage |-> None,
     cancel_orders |-> None, action |-> None, name |-> None,
     watchlist_id |-> None, period |-> None, timeframe |-> None]

OrderTypes == {"market", "limit", "stop", "stop_limit", "trailing_stop"}

PortfolioHistoryArgs ==
    {[NoArgs EXCEPT !.period = p] : p \in {None, Some("1D")}}
QuoteArgs == {[NoArgs EXCEPT !.symbol = Some(y)] : y \in {"aapl", "AAPL"}}
QuotesArgs ==
    {[NoArgs EXCEPT !.symbols = Some(y)] : y \in {<<"aapl">>, <<"AAPL", "msft">>}}
BarsArgs ==
    {[NoArgs EXCEPT !.symbol = Some("aapl"), !.limit = l] : l \in OptNum}
CryptoQuoteArgs == {[NoArgs EXCEPT !.symbol = Some("btc/usd")]}
PlaceOrderArgs ==
    {[NoArgs EXCEPT !.symbol = Some("aapl"), !.side = Some("buy"), !.qty = Some(1),
                    !.order_type = t, !.limit_price = lp, !.stop_price = sp,
                    !.trail_percent = tp, !.trail_price = tq, !.extended_hours = eh] :
        t \in {None} \cup {Some(y) : y \in OrderTypes},
        lp \in OptNum, sp \in {None, Some(1)}, tp \in OptNum, tq \in {None, Some(1)},
        eh \in {None, Some(TRUE)}}
PlaceCryptoOrderArgs ==
    {[NoArgs EXCEPT !.symbol = Some("btc/usd"), !.side = Some("buy"),
                    !.qty = q, !.notional = n, !.limit_price = lp] :
        q \in OptNum, n \in OptNum, lp \in {None, Some(1)}}
OrdersArgs ==
    {[NoArgs EXCEPT !.status = st, !.limit = l] :
        st \in {None, Some("closed")}, l \in OptNum}
CancelOrderArgs ==
    {[NoArgs EXCEPT !.order_id = o] : o \in {None, Some(""), Some("o1")}}
ClosePositionArgs ==
    {[NoArgs EXCEPT !.symbol = Some("aapl"), !.qty = q, !.percentage = p] :
        q \in OptNum, p \in OptNum}
CloseAllPositionsArgs ==
    {[NoArgs EXCEPT !.cancel_orders = b] : b \in {None, Some(TRUE), Some(FALSE)}}
WatchlistsArgs ==
    {[NoArgs EXCEPT !.action = a, !.name = n, !.watchlist_id = w, !.symbols = y] :
        a \in {None, Some("list"), Some("create"), Some("view"), Some("delete")},
        n \in {None, Some("tech")}, w \in {None, Some("w1")},
        y \in {None, Some(<<"aapl">>)}}

\* upstream answers: a 2xx with a JSON document of `items` elements, a 204
\* with no content, or a non-2xx with an error text
ErrorTexts == {"", "{\"message\":\"insufficient qty\"}"}
Response(status, text, items) ==
    [status |-> status, text |-> text, items |-> items,
     equity |-> items, profit_loss |-> items, profit_loss_pct |-> items]
Responses ==
    {Response(200, "json", n) : n \in 0..MaxItems}
    \cup {Response(204, "", 0)}
    \cup {Response(st, t, 0) : st \in {422, 500}, t \in ErrorTexts}

\* a portfolio-history document whose four arrays have any lengths, equal or not
HistoryResponses ==
    {[status |-> 200, text |-> "json", items |-> n,
      equity |-> e, profit_loss |-> p, profit_loss_pct |-> q] :
        n \in 0..MaxItems, e \in 0..(MaxItems + 1), p \in 0..(MaxItems + 1),
        q \in 0..(MaxItems + 1)}

\* what upstream may answer to the request of the tool
ResponsesTo(tool) ==
    IF tool = "alpaca_portfolio_history"
    THEN Responses \cup HistoryResponses
    ELSE Responses

\* --------------------------------------------------------------- actions
Init ==
    /\ settings \in Settings
    /\ pc = "idle"
    /\ call = None
    /\ client = None
    /\ atCall = None
    /\ outbox = << >>
    /\ response = None
    /\ result = None

\* A handler is entered and runs to its await (a request goes out) or to an
\* early return.
Begin(tool, args, step) ==
    /\ pc = "idle"
    /\ call' = Some([tool |-> tool, args |-> args])
    /\ client' = step.client
    /\ atCall' = Some(settings)
    /\ outbox' = IF step.req = None THEN << >> ELSE <<step.req[1]>>
    /\ response' = None
    /\ result' = step.ret
    /\ pc' = IF step.ret = None THEN "awaiting" ELSE "returned"
    /\ UNCHANGED settings

route_account ==
    Begin("route_account", NoArgs, route_account_begin(NoArgs, settings))

route_positions ==
    Begin("route_positions", NoArgs, route_positions_begin(NoArgs, settings))

route_orders ==
    Begin("route_orders", NoArgs, route_orders_begin(NoArgs, settings))

route_clock ==
    Begin("route_clock", NoArgs, route_clock_begin(NoArgs, settings))

alpaca_account ==
    \E args \in {NoArgs} :
        Begin("alpaca_account", args, alpaca_account_begin(args, settings))

alpaca_positions ==
    \E args \in {NoArgs} :
        Begin("alpaca_positions", args, alpaca_positions_begin(args, settings))

alpaca_portfolio_history ==
    \E args \in PortfolioHistoryArgs :
        Begin("alpaca_portfolio_history", args, alpaca_portfolio_history_begin(args, settings))

alpaca_quote ==
    \E args \in QuoteArgs :
        Begin("alpaca_quote", args, alpaca_quote_begin(args, settings))

alpaca_quotes ==
    \E args \in QuotesArgs :
        Begin("alpaca_quotes", args, alpaca_quotes_begin(args, settings))

alpaca_bars ==
    \E args \in BarsArgs :
        Begin("alpaca_bars", args, alpaca_bars_begin(args, settings))

alpaca_crypto_quote ==
    \E args \in CryptoQuoteArgs :
        Begin("alpaca_crypto_quote", args, alpaca_crypto_quote_begin(args, settings))

alpaca_place_order ==
    \E args \in PlaceOrderArgs :
        Begin("alpaca_place_order", args, alpaca_place_order_begin(args, settings))

alpaca_place_crypto_order ==
    \E args \in PlaceCryptoOrderArgs :
        Begin("alpaca_place_crypto_order", args, alpaca_place_crypto_order_begin(args, settings))

alpaca_orders ==
    \E args \in OrdersArgs :
        Begin("alpaca_orders", args, alpaca_orders_begin(args, settings))

alpaca_cancel_order ==
    \E args \in CancelOrderArgs :
        Begin("alpaca_cancel_order", args, alpaca_cancel_order_begin(args, settings))

alpaca_close_position ==
    \E args \in ClosePositionArgs :
        Begin("alpaca_close_position", args, alpaca_close_position_begin(args, settings))

alpaca_close_all_positions ==
    \E args \in CloseAllPositionsArgs :
        Begin("alpaca_close_all_positions", args, alpaca_close_all_positions_begin(args, settings))

alpaca_market_clock ==
    \E args \in {NoArgs} :
        Begin("alpaca_market_clock", args, alpaca_market_clock_begin(args, settings))

alpaca_watchlists ==
    \E args \in WatchlistsArgs :
        Begin("alpaca_watchlists", args, alpaca_watchlists_begin(args, settings))

\* the rest of a handler, run with the outcome r of its awaited client call
Resume(tool, args, r, s) ==
    CASE tool \in {"route_account", "route_positions", "route_orders", "route_clock"} ->
            route_resume(args, r, s)
      [] tool = "alpaca_account" -> alpaca_account_resume(args, r, s)
      [] tool = "alpaca_positions" -> alpaca_positions_resume(args, r, s)
      [] tool = "alpaca_portfolio_history" -> alpaca_portfolio_history_resume(args, r, s)
      [] tool = "alpaca_quote" -> alpaca_quote_resume(args, r, s)
      [] tool = "alpaca_quotes" -> alpaca_quotes_resume(args, r, s)
      [] tool = "alpaca_bars" -> alpaca_bars_resume(args, r, s)
      [] tool = "alpaca_crypto_quote" -> alpaca_crypto_quote_resume(args, r, s)
      [] tool = "alpaca_place_order" -> alpaca_place_order_resume(args, r, s)
      [] tool = "alpaca_place_crypto_order" -> alpaca_place_crypto_order_resume(args, r, s)
      [] tool = "alpaca_orders" -> alpaca_orders_resume(args, r, s)
      [] tool = "alpaca_cancel_order" -> alpaca_cancel_order_resume(args, r, s)
      [] tool = "alpaca_close_position" -> alpaca_close_position_resume(args, r, s)
      [] tool = "alpaca_close_all_positions" -> alpaca_close_all_positions_resume(args, r, s)
      [] tool = "alpaca_market_clock" -> alpaca_market_clock_resume(args, r, s)
      [] tool = "alpaca_watchlists" -> alpaca_watchlists_resume(args, r, s)

\* the outcome of the awaited call once fetch has answered with res
Outcome(req, res) ==
    IF req.transport = "trade" THEN tradeOutcome(res) ELSE dataOutcome(res)

\* fetch resolves with an upstream response and the handler runs to its return
FetchResolves ==
    /\ pc = "awaiting"
    /\ \E res \in ResponsesTo(call[1].tool) :
        /\ response' = Some(res)
        /\ result' = Some(Resume(call[1].tool, call[1].args,
                                 Outcome(outbox[Len(outbox)], res), settings))
    /\ pc' = "returned"
    /\ UNCHANGED <<settings, call, client, atCall, outbox>>

\* a transport that sends the request a second time when fetch rejects
FetchRejects_retry ==
    /\ pc = "awaiting"
    /\ IF Len(outbox) < 2
       THEN /\ outbox' = Append(outbox, outbox[Len(outbox)])
            /\ UNCHANGED <<settings, pc, call, client, atCall, response, result>>
       ELSE /\ response' = None
            /\ result' = Some(Resume(call[1].tool, call[1].args,
                                     Threw(FetchFailedMessage), settings))
            /\ pc' = "returned"
            /\ UNCHANGED <<settings, call, client, atCall, outbox>>

\* fetch rejects (network failure): the Error reaches the handler's catch
FetchRejects ==
    /\ pc = "awaiting"
    /\ response' = None
    /\ result' = Some(Resume(call[1].tool, call[1].args,
                             Threw(FetchFailedMessage), settings))
    /\ pc' = "returned"
    /\ UNCHANGED <<settings, call, client, atCall, outbox>>

\* the host has consumed the returned value
Deliver ==
    /\ pc = "returned"
    /\ pc' = "idle"
    /\ call' = None
    /\ client' = None
    /\ atCall' = None
    /\ outbox' = << >>
    /\ response' = None
    /\ result' = None
    /\ UNCHANGED settings

\* The user edits the plugin settings.  Credentials are read only by
\* getClient at the start of a handler, so their edits are taken between
\* invocations; tradingMode is read again by modeLabel after the await, so
\* it may also change while a request is in flight.
SetCredentials ==
    /\ pc = "idle"
    /\ \E k \in ApiKeyValues, sk \in SecretKeyValues :
        settings' = [settings EXCEPT !.alpacaApiKey = k, !.alpacaSecretKey = sk]
    /\ UNCHANGED <<pc, call, client, atCall, outbox, response, result>>

SetTradingMode ==
    /\ pc \in {"idle", "awaiting"}
    /\ \E m \in TradingModeValues :
        settings' = [settings EXCEPT !.tradingMode = m]
    /\ UNCHANGED <<pc, call, client, atCall, outbox, response, result>>

Next ==
    \/ route_account
    \/ route_positions
    \/ route_orders
    \/ route_clock
    \/ alpaca_account
    \/ alpaca_positions
    \/ alpaca_portfolio_history
    \/ alpaca_quote
    \/ alpaca_quotes
    \/ alpaca_bars
    \/ alpaca_crypto_quote
    \/ alpaca_place_order
    \/ alpaca_place_crypto_order
    \/ alpaca_orders
    \/ alpaca_cancel_order
    \/ alpaca_close_position
    \/ alpaca_close_all_positions
    \/ alpaca_market_clock
    \/ alpaca_watchlists
    \/ FetchResolves
    \/ FetchRejects
    \/ Deliver
    \/ SetCredentials
    \/ SetTradingMode

Spec == Init /\ [][Next]_vars

\* ------------------------------------------------------------ type check
TypeOK ==
    /\ settings \in Settings
    /\ pc \in {"idle", "awaiting", "returned"}
    /\ Len(outbox) <= 1
    /\ (pc = "awaiting") => (result = None /\ Len(outbox) = 1)
    /\ (pc = "returned") => (result # None)

\* ========================================================== properties
Routes == {"route_account", "route_positions", "route_orders", "route_clock"}
DataTools == {"alpaca_quote", "alpaca_quotes", "alpaca_bars", "alpaca_crypto_quote"}

Invoked == call # None
Tool == call[1].tool
Args == call[1].args
IsTool == Invoked /\ Tool \notin Routes
Returned_ == pc = "returned"
Succeeded == Returned_ /\ ~result[1].isError
Failed == Returned_ /\ result[1].isError
NothingSent == outbox = << >>
TradeRequestSent == outbox # << >> /\ outbox[1].transport = "trade"

\* the text contains the fragment
Contains(text, fragment) == \E i \in DOMAIN text : text[i] = fragment
HasTag(r, label) == Contains(r.text, Tag(label))
Tagged(r) == HasTag(r, "PAPER") \/ HasTag(r, "LIVE")

\* a credential of the pair was absent (or empty) when the handler was entered
CredentialsMissing ==
    Invoked /\ (~TruthyStr(atCall[1].alpacaApiKey) \/ ~TruthyStr(atCall[1].alpacaSecretKey))

\* ---------------------------------------------------------------- C1
\* C1: a trading request goes to the paper trading base URL when the mode
\* setting is "paper" and to the live trading base URL when it is "live", and
\* the URL used for one mode is never the URL of the other.
C1_TradeUrlByMode ==
    \A i \in DOMAIN outbox :
        outbox[i].transport = "trade" =>
            /\ atCall[1].tradingMode = Some("paper") =>
                  (outbox[i].base = PAPER_TRADE_URL /\ outbox[i].base # LIVE_TRADE_URL)
            /\ atCall[1].tradingMode = Some("live") =>
                  (outbox[i].base = LIVE_TRADE_URL /\ outbox[i].base # PAPER_TRADE_URL)

C1_Witness ==
    /\ pc = "awaiting"
    /\ Tool = "alpaca_account"
    /\ atCall[1].tradingMode = Some("live")
    /\ outbox[1].url = "https://api.alpaca.markets/v2/account"

\* ---------------------------------------------------------------- C2
\* C2: every successful result of a tool carries a [PAPER] or [LIVE] tag.
C2_EverySuccessTagged ==
    (IsTool /\ Succeeded) => Tagged(result[1])

\* ---------------------------------------------------------------- C3
\* C3: the mode tag of a successful result names the mode whose trading base
\* URL the request went to, also when tradingMode changes in flight.
C3_TagNamesRoutedMode ==
    (IsTool /\ Succeeded /\ TradeRequestSent) =>
        /\ HasTag(result[1], "PAPER") => outbox[1].base = PAPER_TRADE_URL
        /\ HasTag(result[1], "LIVE") => outbox[1].base = LIVE_TRADE_URL

CryptoOrderWithoutAmount ==
    /\ Invoked
    /\ Tool = "alpaca_place_crypto_order"
    /\ ~TruthyNum(Args.qty)
    /\ ~TruthyNum(Args.notional)

C5_InvalidModeRejected ==
    (Invoked /\ atCall[1].tradingMode = Some("sandbox")) =>
        /\ NothingSent
        /\ Returned_ => (Failed /\ ~Tagged(result[1]))

\* ---------------------------------------------------------------- C6
\* C6: a trading operation invoked with no mode specified is rejected and
\* sends no request.
C6_AbsentModeRejected ==
    (Invoked /\ Tool \notin DataTools /\ atCall[1].tradingMode = None) =>
        /\ NothingSent
        /\ Returned_ => Failed

\* ---------------------------------------------------------------- C7
\* the type-required fields of an equity order are present, and a
\* trailing_stop has exactly one of trail_percent and trail_price
EquitySpecValid(a) ==
    LET type == OrStr(a.order_type, "market") IN
    /\ type \in {"limit", "stop_limit"} => a.limit_price # None
    /\ type \in {"stop", "stop_limit"} => a.stop_price # None
    /\ type = "trailing_stop" => ((a.trail_percent # None) # (a.trail_price # None))

\* C7: an equity order is sent iff its type-required fields are present;
\* otherwise it is rejected without a request.
C7_EquityOrderSentIffValid ==
    (Invoked /\ Tool = "alpaca_place_order" /\ ~CredentialsMissing) =>
        /\ ~NothingSent <=> EquitySpecValid(Args)
        /\ (~EquitySpecValid(Args)) => Failed

\* ---------------------------------------------------------------- C8
\* C8: a crypto order with both qty and notional supplied (credentials being
\* configured) is rejected with the validation error and sends nothing.
C8_CryptoBothRejected ==
    (Invoked /\ Tool = "alpaca_place_crypto_order" /\ ~CredentialsMissing
        /\ Args.qty # None /\ Args.notional # None) =>
        /\ NothingSent
        /\ Failed
        /\ result[1].text = QtyOrNotionalMessage

\* ---------------------------------------------------------------- C9
\* C9: a crypto order with neither qty nor notional is rejected with the
\* validation error, before credentials are resolved and before any request,
\* whatever the credentials are.
C9_CryptoNeitherRejectedFirst ==
    (Invoked /\ Tool = "alpaca_place_crypto_order"
        /\ Args.qty = None /\ Args.notional = None) =>
        /\ NothingSent
        /\ client = None
        /\ Returned_
        /\ result[1] = err(QtyOrNotionalMessage)

C9_Witness ==
    /\ Invoked
    /\ Tool = "alpaca_place_crypto_order"
    /\ Args.qty = None /\ Args.notional = None
    /\ atCall[1].alpacaApiKey = None
    /\ result = Some(err(QtyOrNotionalMessage))

\* --------------------------------------------------------------- C10
\* C10: a non-2xx response, on the trading and on the market-data transport,
\* gives an error result holding the status code and the response text as
\* received, never a success.
C10_Non2xxSurfaced ==
    (Returned_ /\ response # None /\ ~ResOk(response[1].status)) =>
        /\ result[1].isError
        /\ Contains(result[1].text, String(response[1].status))
        /\ Contains(result[1].text, response[1].text)

C10_Witness ==
    /\ Returned_
    /\ Tool = "alpaca_place_order"
    /\ response = Some(Response(422, "{\"message\":\"insufficient qty\"}", 0))
    /\ result = Some(err(<<"Alpaca ", "422", ": ", "{\"message\":\"insufficient qty\"}">>))


\* --------------------------------------------------------------- C11
\* C11: one invocation of a tool or route issues at most one HTTP request,
\* whether the request succeeds, is answered with a non-2xx, or fails at the
\* network level; nothing is sent again.
C11_AtMostOneRequest ==
    /\ Len(outbox) <= 1
    /\ Returned_ => (outbox = << >> \/ Len(outbox) = 1)

\* an order placement whose fetch failed at the network level has returned
C11_Witness ==
    /\ Returned_
    /\ Tool = "alpaca_place_order"
    /\ response = None
    /\ Len(outbox) = 1
    /\ outbox[1].method = "POST"
    /\ result = Some(err(FetchFailedMessage))


\* --------------------------------------------------------------- C12
\* a trading request was answered with 204 No Content and the handler returned
Got204 ==
    /\ Returned_
    /\ TradeRequestSent
    /\ response # None
    /\ response[1].status = 204

\* the handlers that read no field of the awaited value before returning
ReadsNoField ==
    \/ Tool \in Routes
    \/ Tool \in {"alpaca_cancel_order", "alpaca_close_position",
                 "alpaca_close_all_positions", "alpaca_market_clock",
                 "alpaca_portfolio_history"}
    \/ Tool = "alpaca_watchlists" /\ Args.action = Some("create")

\* C12 as stated: a 204 to any trading request makes the operation report
\* success
C12_NoContentAlwaysSuccess ==
    Got204 => ~result[1].isError

\* C12 amended: a 204 No Content answer to a trading request is never parsed as JSON
\* (no SyntaxError); cancel-order, and every handler that reads no field of the
\* response, reports success; a handler that dereferences a field of the
\* empty object returns the TypeError as an error result.
C12_NoContentIsEmptySuccess ==
    Got204 =>
        /\ ~Contains(result[1].text, "SyntaxError")
        /\ ReadsNoField => ~result[1].isError
        /\ Tool = "alpaca_cancel_order" =>
              /\ ~result[1].isError
              /\ Contains(result[1].text, " cancelled ")
                    \/ Contains(result[1].text, "All open orders cancelled ")
        /\ ~ReadsNoField => result[1] = err(TypeErrorMessage)

\* a single order was cancelled, upstream answered 204, success was reported
C12_Witness ==
    /\ Got204
    /\ Tool = "alpaca_cancel_order"
    /\ Args.order_id = Some("o1")
    /\ outbox[1].method = "DELETE"
    /\ ~result[1].isError
    /\ Contains(result[1].text, " cancelled ")


\* --------------------------------------------------------------- C13
\* the request that was sent failed: fetch rejected, or a non-2xx came back
RequestFailed ==
    /\ Returned_
    /\ outbox # << >>
    /\ response = None \/ ~ResOk(response[1].status)

\* C13: every error result of an operation whose request went to a trading
\* endpoint (a remote or transport failure of a mode-scoped operation) names
\* the mode, paper or live, that was targeted.
C13_ErrorNamesMode ==
    (IsTool /\ Failed /\ TradeRequestSent /\ RequestFailed) => Tagged(result[1])


\* --------------------------------------------------------------- C14
\* the request a market-data tool sends for args under the settings s
DataRequestOf(tool, args, s) ==
    CASE tool = "alpaca_quote" -> alpaca_quote_begin(args, s).req
      [] tool = "alpaca_quotes" -> alpaca_quotes_begin(args, s).req
      [] tool = "alpaca_bars" -> alpaca_bars_begin(args, s).req
      [] tool = "alpaca_crypto_quote" -> alpaca_crypto_quote_begin(args, s).req

\* C14: a market-data operation (stock snapshot, multi-snapshot, bars, crypto
\* snapshot) sends its request to the one market-data base URL, and for the
\* same arguments the URL under mode "paper" and under mode "live" is the same
\* (and is the URL that went out).
C14_DataUrlModeIndependent ==
    (Invoked /\ Tool \in DataTools /\ outbox # << >>) =>
        LET underPaper == DataRequestOf(Tool, Args,
                              [atCall[1] EXCEPT !.tradingMode = Some("paper")])
            underLive == DataRequestOf(Tool, Args,
                              [atCall[1] EXCEPT !.tradingMode = Some("live")])
        IN /\ outbox[1].transport = "data"
           /\ outbox[1].base = DATA_URL
           /\ outbox[1].url = DATA_URL \o outbox[1].path
                                \o SubSeq(outbox[1].url,
                                          Len(DATA_URL \o outbox[1].path) + 1,
                                          Len(outbox[1].url))
           /\ underPaper # None /\ underLive # None
           /\ underPaper[1].url = underLive[1].url
           /\ outbox[1].url = underLive[1].url

\* a stock snapshot is in flight in live mode, on the data endpoint
C14_Witness ==
    /\ pc = "awaiting"
    /\ Tool = "alpaca_quote"
    /\ atCall[1].tradingMode = Some("live")
    /\ client[1].tradeUrl = LIVE_TRADE_URL
    /\ outbox[1].url = "https://data.alpaca.markets/v2/stocks/AAPL/snapshot?feed=iex"


\* --------------------------------------------------------------- C15
\* C15: every tool handler and route that has returned has returned a result
\* value; when the credentials could not be resolved, or the request was
\* answered with a non-2xx or failed at the network level, that value is a
\* failure (isError, { error } for a route), never a success; and a handler
\* that is still running is waiting for the one request it sent.
C15_FailureReturnedAsFailure ==
    /\ Returned_ => (result # None /\ result[1].isError \in BOOLEAN)
    /\ (Returned_ /\ CredentialsMissing) => (result[1].isError /\ NothingSent)
    /\ RequestFailed => result[1].isError
    /\ (Invoked /\ ~Returned_) => (pc = "awaiting" /\ outbox # << >> /\ result = None)

\* a route whose fetch failed at the network level answered { error }
C15_Witness ==
    /\ Returned_
    /\ Tool = "route_account"
    /\ outbox # << >>
    /\ response = None
    /\ result = Some(routeError(FetchFailedMessage))


\* --------------------------------------------------------------- C16
OrderNumericFields ==
    {"qty", "notional", "limit_price", "stop_price", "trail_percent", "trail_price"}
DecimalChars == {"0", "1", "2", "3", "4", "5", "6", "7", "8", "9", "."}
IsDecimalString(str) ==
    /\ Len(str) > 0
    /\ \A i \in 1..Len(str) : SubSeq(str, i, i) \in DecimalChars
    /\ \E i \in 1..Len(str) : SubSeq(str, i, i) # "."

\* the request is an order placement (equity or crypto)
IsOrderRequest(rq) == rq.method = "POST" /\ rq.path = "/v2/orders"

HistoryLengthsDiverge ==
    /\ Returned_
    /\ Tool = "alpaca_portfolio_history"
    /\ ~CredentialsMissing
    /\ response # None
    /\ response[1].status = 200
    /\ response[1].items > 0
    /\ \/ response[1].equity # response[1].items
       \/ response[1].profit_loss # response[1].items
       \/ response[1].profit_loss_pct # response[1].items

\* C17: a portfolio-history payload whose arrays differ in length is flagged:
\* the operation reports an error (or a warning in its text) and does not
\* return the normal "Portfolio History" or "No portfolio history" result.
C17_DivergingLengthsFlagged ==
    HistoryLengthsDiverge =>
        \/ result[1].isError
        \/ /\ ~Contains(result[1].text, "Portfolio History ")
           /\ ~Contains(result[1].text, "No portfolio history available.")


\* --------------------------------------------------------------- C18
\* the request is the bulk cancel of every open order
IsCancelAll(rq) == rq.method = "DELETE" /\ rq.path = "/v2/orders"

\* C18: alpaca_cancel_order sends the bulk DELETE /v2/orders only when
\* order_id is omitted; when an order_id is supplied, the empty string
\* included, the request is the single-order DELETE /v2/orders/{id}.
C18_BulkCancelOnlyWithoutId ==
    (Invoked /\ Tool = "alpaca_cancel_order" /\ outbox # << >>) =>
        /\ IsCancelAll(outbox[1]) => Args.order_id = None
        /\ Args.order_id # None =>
              /\ outbox[1].method = "DELETE"
              /\ outbox[1].path = "/v2/orders/" \o Args.order_id[1]


\* --------------------------------------------------------------- C19
\* t occurs in s
HasSubstring(s, t) ==
    \E i \in 1..(Len(s) - Len(t) + 1) : SubSeq(s, i, i + Len(t) - 1) = t

\* the request closes the whole position: no query parameter at all
IsFullClose(rq) ==
    rq.method = "DELETE" /\ rq.path = "/v2/positions/" \o encodeURIComponent("AAPL")

\* C19: alpaca_close_position sends the full-close request only when both qty
\* and percentage are omitted; a supplied qty or percentage, 0 included, is
\* forwarded as a query parameter.
C19_FullCloseOnlyWithoutAmount ==
    (Invoked /\ Tool = "alpaca_close_position" /\ outbox # << >>) =>
        /\ IsFullClose(outbox[1]) => (Args.qty = None /\ Args.percentage = None)
        /\ Args.qty # None =>
              HasSubstring(outbox[1].path, "qty=" \o String(Args.qty[1]))
        /\ Args.percentage # None =>
              HasSubstring(outbox[1].path, "percentage=" \o String(Args.percentage[1]))


\* --------------------------------------------------------------- C20
\* the request lists every watchlist
IsListWatchlists(rq) == rq.method = "GET" /\ rq.path = "/v2/watchlists"

\* C20: the watchlist operation sends the list request only when the action
\* is "list" or absent; an action outside list / create / view, or a view
\* without a watchlist_id, does not end in the list branch.
C20_ListOnlyForListAction ==
    (Invoked /\ Tool = "alpaca_watchlists" /\ outbox # << >>) =>
        (IsListWatchlists(outbox[1]) => Args.action \in {None, Some("list")})


\* --------------------------------------------------------------- C21
\* C21: every crypto order payload that is sent upstream has exactly one of
\* qty and notional, never both and never neither; when both arguments are
\* supplied and qty is not zero, qty is sent and notional is left out (and
\* with qty absent or zero, the notional is what is sent).
C21_ExactlyOneOfQtyNotional ==
    \A i \in DOMAIN outbox :
        (Tool = "alpaca_place_crypto_order" /\ IsOrderRequest(outbox[i])) =>
            LET order == outbox[i].body[1] IN
            /\ (order.qty # None) # (order.notional # None)
            /\ (TruthyNum(Args.qty) /\ Args.notional # None) =>
                  /\ order.qty = Some(JsonString(String(Args.qty[1])))
                  /\ order.notional = None
            /\ ~TruthyNum(Args.qty) =>
                  /\ order.qty = None
                  /\ order.notional = Some(JsonString(String(Args.notional[1])))

\* a crypto order given both qty and notional is in flight with qty alone
C21_Witness ==
    /\ pc = "awaiting"
    /\ Tool = "alpaca_place_crypto_order"
    /\ Args.qty = Some(1) /\ Args.notional = Some(1)
    /\ IsOrderRequest(outbox[1])
    /\ outbox[1].body[1].qty = Some(JsonString("1"))
    /\ outbox[1].body[1].notional = None

====
